---- MODULE Spec2Model ----
(***************************************************************************)
(* PaperLens: the multi-provider LLM call layer (src/js/llm.js and the SDK *)
(* based revisions of the same file).  One call (single-shot or streaming) *)
(* is followed from the dispatcher to its last callback.                   *)
(*                                                                         *)
(* Text is a sequence of characters.  The bytes of a streamed fetch body   *)
(* are a sequence over the alphabet                                        *)
(*   "d"        the 'data: ' line prefix                                   *)
(*   "e"        any other SSE field line ('event: ...')                    *)
(*   "{" "}"    the delimiters of a JSON payload                           *)
(*   "a" "b"    characters of generated text                               *)
(*   "!"        the terminal marker ([DONE], message_stop, stream-end)     *)
(*   "?"        an event of another type (ping, message_start)             *)
(*   "x"        garbage that makes a payload invalid JSON                  *)
(*   "\n"       newline                                                    *)
(***************************************************************************)
EXTENDS Integers, Sequences, FiniteSets, TLC

\* ---------------------------------------------------------------- bounds
\* frames the backend sends in one stream
MaxFrames == 4

\* of these, frames that carry neither text nor the terminal marker
MaxNoise == 1

\* messages in the messages argument
MaxMsgs == 4

\* ------------------------------------------------------------ vocabulary
Impls == {"fetch", "sdkV1", "sdkV2"}

Providers == {"openai", "anthropic", "cohere"}

ProviderIds == Providers \cup {"madeup"}

Modes == {"single", "stream"}

Roles == {"system", "user", "assistant"}

Statuses == {200, 401, 500}

\* response.ok
IsOk(status) == status \in 200..299

TextChars == {"a", "b"}

Deltas == {<<"a">>, <<"b">>}

NoErr == [kind |-> "none", status |-> 0]

Err(k) == [kind |-> k, status |-> 0]

\* faulty variant: the error message leaves the status out
HttpErrorNoStatus(status) == [kind |-> "http", status |-> 0]

\* new Error(`... API error: ${response.status}`), and the SDKs' APIError
HttpError(status) == [kind |-> "http", status |-> status]

\* a JavaScript value a text field can hold
Str(s) == [t |-> "string", s |-> s]

Undefined == [t |-> "undefined", s |-> <<>>]

Null == [t |-> "null", s |-> <<>>]

NoValue == [t |-> "none", s |-> <<>>]

\* the messages argument: message i has role roles[i] and content i
Msgs(roles) == [i \in 1..Len(roles) |-> [role |-> roles[i], content |-> i]]

RoleSeqs == UNION {[1..n -> Roles] : n \in 1..MaxMsgs}

\* callback invocations, as recorded by the caller
TokenCall(s) == [cb |-> "token", text |-> s, err |-> NoErr]

CompleteCall == [cb |-> "complete", text |-> <<>>, err |-> NoErr]

ErrorCall(e) == [cb |-> "error", text |-> <<>>, err |-> e]

\* ------------------------------------------------- what the backend emits
\* a logical stream event: a text delta, the terminal marker, an event of
\* another type, a frame that is not valid JSON, a non-data SSE line
Frame(k, s) == [kind |-> k, text |-> s]

TokenFrames == {Frame("token", s) : s \in Deltas \cup {<<>>}}

StopFrame == Frame("stop", <<>>)

FetchFrames == TokenFrames \cup {StopFrame, Frame("other", <<>>), Frame("bad", <<>>), Frame("field", <<>>)}

\* the OpenAI SDK yields chunks whose finish_reason may come with content
SdkFrames(p) == TokenFrames \cup {StopFrame, Frame("other", <<>>)} \cup (IF p = "openai" THEN {Frame("stop", s) : s \in Deltas} ELSE {})

\* the SSE bytes of one frame on the wire of provider p
Encode(p, f) ==
  CASE f.kind = "token" -> <<"d", "{">> \o f.text \o <<"}", "\n">>
    [] f.kind = "stop"  -> IF p = "openai" THEN <<"d", "!", "\n">> ELSE <<"d", "{", "!", "}", "\n">>
    [] f.kind = "other" -> <<"d", "{", "?", "}", "\n">>
    [] f.kind = "bad"   -> <<"d", "{", "x", "\n">>
    [] OTHER            -> <<"e", "\n", "\n">>

\* the longest body the backend can send
MaxWire == MaxFrames * Len(Encode("anthropic", StopFrame))

\* --------------------------------------------------------- pure helpers
RECURSIVE SplitLines(_, _)
\* chunk.split('\n'): cur is the line being collected
SplitLines(chunk, cur) ==
  IF chunk = <<>> THEN <<cur>>
  ELSE IF Head(chunk) = "\n" THEN <<cur>> \o SplitLines(Tail(chunk), <<>>)
  ELSE SplitLines(Tail(chunk), Append(cur, Head(chunk)))

\* .filter(line => line.trim() !== '')
NonBlank(lines) == SelectSeq(lines, LAMBDA l : l # <<>>)

ChunkLines(chunk) == NonBlank(SplitLines(chunk, <<>>))

\* line.startsWith('data: ')
StartsWithData(line) == Len(line) >= 1 /\ line[1] = "d"

\* line.slice(6)
Payload(line) == SubSeq(line, 2, Len(line))

IsText(s) == \A i \in 1..Len(s) : s[i] \in TextChars

\* JSON.parse(data): ok = FALSE when it throws; otherwise the event type
\* and the text delta the payload carries
ParseJSON(data) ==
  LET n == Len(data)
      body == SubSeq(data, 2, n - 1)
  IN IF n >= 2 /\ data[1] = "{" /\ data[n] = "}" /\ (IsText(body) \/ body = <<"!">> \/ body = <<"?">>)
     THEN [ok |-> TRUE,
           type |-> IF body = <<"!">> THEN "stop" ELSE IF body = <<"?">> THEN "other" ELSE "delta",
           text |-> IF IsText(body) /\ body # <<>> THEN Str(body) ELSE Undefined]
     ELSE [ok |-> FALSE, type |-> "none", text |-> Undefined]

\* JavaScript truthiness of a text value: if (content)
Truthy(v) == v.t = "string" /\ v.s # <<>>

RECURSIVE ConcatAll(_)
ConcatAll(ss) == IF ss = <<>> THEN <<>> ELSE Head(ss) \o ConcatAll(Tail(ss))

\* ------------------------------------------- single-shot text extraction
\* a JSON success body: the number of choices / content blocks, the type of
\* the first block and the value of its text field
Body(n, bt, v) == [blocks |-> n, btype |-> bt, text |-> v]

TextValues == {Undefined, Null, Str(<<>>), Str(<<"a">>), Str(<<"a", "b">>)}

\* no block at all, a first block that is not text, a text block
Bodies == {Body(0, "none", Undefined), Body(1, "other", Undefined)} \cup {Body(1, "text", v) : v \in TextValues}

Returned(v) == [ok |-> TRUE, val |-> v]

TypeError == [ok |-> FALSE, val |-> NoValue]

\* v || ""
OrEmpty(v) == IF Truthy(v) THEN v ELSE Str(<<>>)

\* callOpenAI: data.choices[0].message.content (fetch),
\* response.choices[0].message.content || "" (SDK)
OpenAIText(impl, body) ==
  IF body.blocks = 0 THEN TypeError
  ELSE IF impl = "fetch" THEN Returned(body.text) ELSE Returned(OrEmpty(body.text))

\* callAnthropic: data.content[0].text (fetch),
\* response.content[0].type === "text" ? response.content[0].text : "" (SDK)
AnthropicText(impl, body) ==
  IF body.blocks = 0 THEN TypeError
  ELSE IF impl = "fetch" THEN Returned(body.text)
  ELSE IF body.btype = "text" THEN Returned(body.text) ELSE Returned(Str(<<>>))

\* callCohere: data.text (fetch), response.text (CohereClient),
\* the first content block's text when it has one, else "" (CohereClientV2)
CohereText(impl, body) ==
  IF impl \in {"fetch", "sdkV1"} THEN Returned(body.text)
  ELSE IF body.blocks > 0 /\ body.text # Undefined THEN Returned(body.text)
  ELSE Returned(Str(<<>>))

ExtractText(impl, p, body) ==
  CASE p = "openai" -> OpenAIText(impl, body)
    [] p = "anthropic" -> AnthropicText(impl, body)
    [] OTHER -> CohereText(impl, body)

\* ------------------------------------------------- streaming, fetch build
\* the effect of one step of an adapter's loop: the callbacks it invokes and
\* whether the adapter returned
Step(calls, ret) == [calls |-> calls, ret |-> ret]

Nothing == Step(<<>>, FALSE)

\* faulty variant: JSON.parse is not guarded by the inner try, so a malformed frame
\* reaches the outer catch
OpenAIStreamLineFatalParse(line) ==
  IF ~StartsWithData(line) THEN Nothing
  ELSE LET data == Payload(line)
           parsed == ParseJSON(data)
           content == IF parsed.type = "delta" THEN parsed.text ELSE Undefined
       IN IF data = <<"!">> THEN Step(<<CompleteCall>>, TRUE)
          ELSE IF ~parsed.ok THEN Step(<<ErrorCall(Err("parse"))>>, TRUE)
          ELSE IF Truthy(content) THEN Step(<<TokenCall(content.s)>>, FALSE)
          ELSE Nothing

\* callOpenAIStreaming, body of the for loop over the lines of a chunk
OpenAIStreamLine(line) ==
  IF ~StartsWithData(line) THEN Nothing
  ELSE LET data == Payload(line)
           parsed == ParseJSON(data)
           content == IF parsed.type = "delta" THEN parsed.text ELSE Undefined
       IN IF data = <<"!">> THEN Step(<<CompleteCall>>, TRUE)
          ELSE IF parsed.ok /\ Truthy(content) THEN Step(<<TokenCall(content.s)>>, FALSE)
          ELSE Nothing

\* faulty variant: no return after callback.onComplete()
AnthropicStreamLineNoReturn(line) ==
  IF ~StartsWithData(line) THEN Nothing
  ELSE LET parsed == ParseJSON(Payload(line))
       IN IF ~parsed.ok THEN Nothing
          ELSE IF parsed.type = "delta"
               THEN (IF Truthy(parsed.text) THEN Step(<<TokenCall(parsed.text.s)>>, FALSE) ELSE Nothing)
          ELSE IF parsed.type = "stop" THEN Step(<<CompleteCall>>, FALSE)
          ELSE Nothing

\* callAnthropicStreaming, body of the for loop over the lines of a chunk
AnthropicStreamLine(line) ==
  IF ~StartsWithData(line) THEN Nothing
  ELSE LET parsed == ParseJSON(Payload(line))
       IN IF ~parsed.ok THEN Nothing
          ELSE IF parsed.type = "delta"
               THEN (IF Truthy(parsed.text) THEN Step(<<TokenCall(parsed.text.s)>>, FALSE) ELSE Nothing)
          ELSE IF parsed.type = "stop" THEN Step(<<CompleteCall>>, TRUE)
          ELSE Nothing

\* callCohereStreaming, body of the for loop over the lines of a chunk
CohereStreamLine(line) ==
  IF ~StartsWithData(line) THEN Nothing
  ELSE LET parsed == ParseJSON(Payload(line))
       IN IF ~parsed.ok THEN Nothing
          ELSE IF parsed.type = "delta"
               THEN (IF Truthy(parsed.text) THEN Step(<<TokenCall(parsed.text.s)>>, FALSE) ELSE Nothing)
          ELSE IF parsed.type = "stop" THEN Step(<<CompleteCall>>, TRUE)
          ELSE Nothing

StreamLine(p, line) ==
  CASE p = "openai" -> OpenAIStreamLine(line)
    [] p = "anthropic" -> AnthropicStreamLine(line)
    [] OTHER -> CohereStreamLine(line)

RECURSIVE ProcessLinesNoReturn(_, _)
\* faulty variant: the return after onComplete only leaves the inner loop's
\* iteration, the remaining lines are still handled
ProcessLinesNoReturn(p, lines) ==
  IF lines = <<>> THEN Nothing
  ELSE LET r == StreamLine(p, Head(lines))
           rest == ProcessLinesNoReturn(p, Tail(lines))
       IN Step(r.calls \o rest.calls, r.ret \/ rest.ret)

RECURSIVE ProcessLinesReversed(_, _)
\* faulty variant: the lines of a chunk are handled last to first
ProcessLinesReversed(p, lines) ==
  IF lines = <<>> THEN Nothing
  ELSE LET r == StreamLine(p, lines[Len(lines)])
           rest == ProcessLinesReversed(p, SubSeq(lines, 1, Len(lines) - 1))
       IN IF r.ret THEN r ELSE Step(r.calls \o rest.calls, rest.ret)

RECURSIVE ProcessLines(_, _)
\* for (const line of lines) { ... }: a return inside the loop ends it
ProcessLines(p, lines) ==
  IF lines = <<>> THEN Nothing
  ELSE LET r == StreamLine(p, Head(lines))
           rest == ProcessLines(p, Tail(lines))
       IN IF r.ret THEN r ELSE Step(r.calls \o rest.calls, rest.ret)

\* --------------------------------------------------- streaming, SDK builds
\* callOpenAIStreaming: chunk.choices[0]?.delta?.content, then finish_reason
OpenAISdkEvent(ev) ==
  LET tok == IF ev.kind \in {"token", "stop"} /\ ev.text # <<>> THEN <<TokenCall(ev.text)>> ELSE <<>>
  IN IF ev.kind = "stop" THEN Step(Append(tok, CompleteCall), TRUE) ELSE Step(tok, FALSE)

\* callAnthropicStreaming: content_block_delta with a text_delta, message_stop
AnthropicSdkEvent(ev) ==
  IF ev.kind = "token" THEN Step(<<TokenCall(ev.text)>>, FALSE)
  ELSE IF ev.kind = "stop" THEN Step(<<CompleteCall>>, TRUE)
  ELSE Nothing

\* callCohereStreaming: text-generation / stream-end (CohereClient),
\* content-delta with a string text / message-end (CohereClientV2)
CohereSdkEvent(impl, ev) ==
  IF ev.kind = "token"
  THEN (IF impl = "sdkV2" \/ ev.text # <<>> THEN Step(<<TokenCall(ev.text)>>, FALSE) ELSE Nothing)
  ELSE IF ev.kind = "stop" THEN Step(<<CompleteCall>>, TRUE)
  ELSE Nothing

SdkEvent(impl, p, ev) ==
  CASE p = "openai" -> OpenAISdkEvent(ev)
    [] p = "anthropic" -> AnthropicSdkEvent(ev)
    [] OTHER -> CohereSdkEvent(impl, ev)

\* ---------------------------------------------- callbacks that may throw
\* the effect of a loop step when invoked callbacks may throw: the callbacks
\* invoked (the one that threw included), whether the loop was left, and
\* whether an exception reached the adapter's outer catch block
Thrown(calls, ret, raised) == [calls |-> calls, ret |-> ret, raised |-> raised]

CallbackKinds == {"token", "complete", "error"}

\* fetch build, one line, the callbacks t throwing.  callback.onToken sits
\* inside the try around JSON.parse in all three adapters, and so does
\* callback.onComplete in the Anthropic and Cohere ones: the exception is
\* caught as if the JSON were invalid and the loop goes on (the return after
\* onComplete is not reached).  In the OpenAI adapter onComplete is invoked
\* before that try, so its exception reaches the outer catch
LineThrowing(p, line, t) ==
  LET r == StreamLine(p, line)
  IN IF r.calls = <<>> \/ r.calls[1].cb \notin t THEN Thrown(r.calls, r.ret, FALSE)
     ELSE IF r.calls[1].cb = "complete" /\ p = "openai" THEN Thrown(r.calls, TRUE, TRUE)
     ELSE Thrown(r.calls, FALSE, FALSE)

RECURSIVE ProcessLinesThrowing(_, _, _)
\* for (const line of lines) { ... } with throwing callbacks
ProcessLinesThrowing(p, lines, t) ==
  IF lines = <<>> THEN Thrown(<<>>, FALSE, FALSE)
  ELSE LET r == LineThrowing(p, Head(lines), t)
           rest == ProcessLinesThrowing(p, Tail(lines), t)
       IN IF r.ret THEN r ELSE Thrown(r.calls \o rest.calls, rest.ret, rest.raised)

\* SDK builds, one event: the callbacks are invoked directly inside the
\* outer try, the first exception leaves the for await loop
SdkEventThrowing(impl, p, ev, t) ==
  LET r == SdkEvent(impl, p, ev)
      bad == {i \in 1..Len(r.calls) : r.calls[i].cb \in t}
  IN IF bad = {} THEN Thrown(r.calls, r.ret, FALSE)
     ELSE Thrown(SubSeq(r.calls, 1, CHOOSE i \in bad : \A j \in bad : i <= j), TRUE, TRUE)

\* ------------------------------------------------------ request building
NonSystem(msgs) == SelectSeq(msgs, LAMBDA m : m.role # "system")

\* callCohere / callCohereStreaming read lastMessage.content where
\* lastMessage = userMessages[userMessages.length - 1]: a TypeError when
\* there is no non-system message (not in the CohereClientV2 revision)
BuildThrows(impl, p, msgs) ==
  p = "cohere" /\ impl \in {"fetch", "sdkV1"} /\ NonSystem(msgs) = <<>>

\* is the statement that failed inside the adapter's try block
InsideTry(impl, m) == m = "stream" /\ impl # "fetch"

\* AVAILABLE_MODELS: the ids of each provider's models, in list order
AvailableModels(p) ==
  CASE p = "openai" -> <<"gpt-5", "gpt-5-mini", "gpt-5-nano", "gpt-4.1">>
    [] p = "anthropic" -> <<"claude-opus-4-1-20250805", "claude-sonnet-4-20250522">>
    [] OTHER -> <<"command-a-03-2025", "command-a-reasoning-08-2025">>

\* faulty variant: the default is the last entry of the list
DefaultModelsLast(p) == AvailableModels(p)[Len(AvailableModels(p))]

\* DEFAULT_MODELS
DefaultModels(p) == AvailableModels(p)[1]

\* OPENAI_MODEL, ANTHROPIC_MODEL, COHERE_MODEL of the fetch build
ModelConstant(p) ==
  CASE p = "openai" -> "gpt-5"
    [] p = "anthropic" -> "claude-opus-4-1-20250805"
    [] OTHER -> "command-a-03-2025"

\* the model argument when the caller passes none (undefined is falsy, and so
\* is the empty string)
NoModel == ""

\* the model arguments a caller can pass
ModelArgs == {NoModel, "my-model"} \cup UNION {{AvailableModels(p)[i] : i \in 1..Len(AvailableModels(p))} : p \in Providers}

\* the fetch build's callLLM and callLLMStreaming have no model parameter
HasModelParam(impl) == impl # "fetch"

\* model: model || DEFAULT_MODELS.x, or the constant in the fetch build
ModelSent(impl, p, mdl) ==
  IF ~HasModelParam(impl) THEN ModelConstant(p)
  ELSE IF mdl # NoModel THEN mdl ELSE DefaultModels(p)

\* messages.find((m) => m.role === "system")?.content || "": the content of
\* the first system message as a one-element sequence, <<>> for ""
SystemContent(msgs) ==
  LET sys == SelectSeq(msgs, LAMBDA m : m.role = "system")
  IN IF sys = <<>> THEN <<>> ELSE <<sys[1].content>>

\* role: m.role === "assistant" ? "assistant" : "user"
AsUserOrAssistant(m) ==
  [role |-> IF m.role = "assistant" THEN "assistant" ELSE "user", content |-> m.content]

\* the body of a request: shape names its slots ("chat": one messages array,
\* "system": system + messages, "preamble": preamble + message, the message
\* held as the one entry of messages)
Req(shape, mdl, sys, conv) == [shape |-> shape, model |-> mdl, system |-> sys, messages |-> conv]

\* callOpenAI / callOpenAIStreaming: messages: messages
OpenAIRequest(impl, msgs, mdl) == Req("chat", ModelSent(impl, "openai", mdl), <<>>, msgs)

\* faulty variant: the system messages are not filtered out
AnthropicRequestUnfiltered(impl, msgs, mdl) ==
  Req("system", ModelSent(impl, "anthropic", mdl), SystemContent(msgs),
        [i \in 1..Len(msgs) |-> AsUserOrAssistant(msgs[i])])

\* callAnthropic / callAnthropicStreaming
AnthropicRequest(impl, msgs, mdl) ==
  Req("system", ModelSent(impl, "anthropic", mdl), SystemContent(msgs),
        [i \in 1..Len(NonSystem(msgs)) |-> AsUserOrAssistant(NonSystem(msgs)[i])])

\* callCohere / callCohereStreaming: the CohereClientV2 revision maps every
\* message into the messages array; the others send lastMessage.content,
\* lastMessage being the last entry of userMessages, and the preamble
CohereRequest(impl, msgs, mdl) ==
  IF impl = "sdkV2"
  THEN Req("chat", ModelSent(impl, "cohere", mdl), <<>>, msgs)
  ELSE Req("preamble", ModelSent(impl, "cohere", mdl), SystemContent(msgs),
             <<[role |-> "user", content |-> NonSystem(msgs)[Len(NonSystem(msgs))].content]>>)

\* the request body the adapter of provider p builds
RequestBody(impl, p, msgs, mdl) ==
  CASE p = "openai" -> OpenAIRequest(impl, msgs, mdl)
    [] p = "anthropic" -> AnthropicRequest(impl, msgs, mdl)
    [] OTHER -> CohereRequest(impl, msgs, mdl)

\* no request body was built
NoRequest == Req("none", NoModel, <<>>, <<>>)

\* ------------------------------------------------ application vocabulary
\* entries of qaHistory
MaxQA == 2

\* arXiv ids the user loads
PaperIds == {"A", "B"}

\* the generated fields of a paper object
Fields == {"summary", "concepts", "readable", "accessible"}

\* the fields written by generateSummary, extractConcepts, generateAccessible
GenOps == {"summary", "concepts", "accessible"}

\* the text of the question typed when the history has n entries (the text
\* only matters for being empty or not)
Questions == [n \in 0..MaxQA |-> IF n % 2 = 0 THEN "q1" ELSE "q2"]

Keys == {"k1", "k2"}

NoKey == ""

\* a generated field is undefined, or holds the text generated from the
\* paper it names
NoContent == "none"

Blank == [f \in Fields |-> NoContent]

\* a paper object: its id and its generated fields
Paper(id, gen) == [id |-> id, gen |-> gen]

\* let currentPaper = null
NoPaper == Paper("none", Blank)

\* paperData = {id, title, content} as loadPaper builds it
PaperData(id) == Paper(id, Blank)

\* what localStorage holds under a paper's cache key
Entry(gen, qa) == [cached |-> TRUE, gen |-> gen, qa |-> qa]

NoEntry == [cached |-> FALSE, gen |-> Blank, qa |-> <<>>]

\* the fields cachePaper takes from its currentPaper argument
CachedFields == {"summary", "concepts", "readable"}

\* cacheData of cachePaper(paperData, currentPaper, qaHistory): the spread of
\* paperData, with summary, concepts and readable taken from currentPaper
CacheData(paperData, cur, qa) ==
  Entry([f \in Fields |-> IF f \in CachedFields THEN cur.gen[f] ELSE paperData.gen[f]], qa)

\* faulty variant: an entry is pushed even when the id has one
UpdateLibraryAlways(lib, id) == Append(lib, id)

\* updateLibrary(paperData): the entry of the id is replaced, or one is pushed
UpdateLibrary(lib, id) ==
  IF \E i \in 1..Len(lib) : lib[i] = id THEN lib ELSE Append(lib, id)

\* faulty variant: the library is emptied
RemoveFromLibraryAll(lib, id) == <<>>

\* removeFromLibrary(arxivId): library.filter(p => p.id !== arxivId)
RemoveFromLibrary(lib, id) == SelectSeq(lib, LAMBDA x : x # id)

\* the ids of the library entries
LibraryIds(lib) == {lib[i] : i \in 1..Len(lib)}

\* faulty variant: every provider's key is deleted
RemoveKeyAll(keys, p) == [q \in Providers |-> NoKey]

\* delete savedKeys[provider]
RemoveKey(keys, p) == [keys EXCEPT ![p] = NoKey]

\* faulty variant: every field of the entry is restored
RestoredFieldsAll == Fields

\* the fields loadFromCache copies into the new currentPaper
RestoredFields == {"summary", "concepts", "readable"}

\* the currentPaper object loadFromCache builds from a cache entry
FromCache(id, cached) ==
  Paper(id, [f \in Fields |-> IF f \in RestoredFields THEN cached.gen[f] ELSE NoContent])

\* an entry of qaHistory: answer is "thinking" (the placeholder) or names
\* the paper the answer text, whole or so far, was generated from
QA(q, a) == [question |-> q, answer |-> a]

\* an in-flight request: an LLM call of a generation operation (kind in
\* GenOps or "question") or the proxy fetch of loadPaper (kind "load").  to
\* and key are the endpoint and the API key sent; live tells that the paper
\* and history handed to loadPaper are still the application's, paper and qa
\* hold them once they are not; for a question, qa is the history when it
\* was asked
Flight(kind, mode, to, key, id, q, live, paper, qa) ==
  [kind |-> kind, mode |-> mode, to |-> to, key |-> key, id |-> id, q |-> q, live |-> live, paper |-> paper, qa |-> qa]

\* callLLM / callLLMStreaming(messages, llmConfig.provider, llmConfig.key):
\* id is the paper the messages were built from, q the question asked
LLMFlight(kind, mode, to, key, id, q, qa) == Flight(kind, mode, to, key, id, q, FALSE, NoPaper, qa)

\* fetch(`https://api.allorigins.win/get?url=...`): no header, no key
LoadFlight(id) == Flight("load", "single", "proxy", NoKey, id, "", TRUE, NoPaper, <<>>)

\* how an LLM call can end, as seen by its caller
Outcomes(mode) ==
  IF mode = "stream" THEN {"complete", "error", "threw", "silent"} ELSE {"returned", "threw"}

\* -------------------------------------------------- calls side by side
\* frames the backend sends to each of two concurrent calls
MaxParFrames == 2

CallIds == {1, 2}

\* one streaming call of the fetch build: the provider, the response stream
\* (the bytes not yet read, whether the backend still sends, the frames
\* sent) and the invocations received by the callback object passed to it
CallState(pc, p, wire, open, nsent, heard) ==
  [pc |-> pc, provider |-> p, wire |-> wire, open |-> open, nsent |-> nsent, heard |-> heard]

IdleCall == CallState("idle", "none", <<>>, FALSE, 0, <<>>)

\* a callback invocation as its receiver records it, with the call whose
\* transport produced it
Heard(c, from) == [cb |-> c.cb, text |-> c.text, err |-> c.err, from |-> from]

\* faulty variant: the adapter keeps the callback object in a module-level
\* variable, overwritten by the latest call
CallbackOfLatest(i) == 2

\* callback.onToken / onComplete / onError: callback is a parameter of the
\* adapter, so call i invokes the object it was given
CallbackOf(i) == i

\* the callback invocations cs of call i are delivered
Deliver(cs, i, st) ==
  [st EXCEPT ![CallbackOf(i)].heard = @ \o [k \in 1..Len(cs) |-> Heard(cs[k], i)]]

\* ------------------------------------------------------------------ state
VARIABLES
  impl,
  pc,
  mode,
  provider,
  requests,
  status,
  body,
  wire,
  events,
  open,
  sent,
  nread,
  split,
  fault,
  log,
  outcome,
  retval,
  err,
  messages,
  model,
  request,
  currentPaper,
  qaHistory,
  papers,
  library,
  savedKeys,
  activeProvider,
  streamingEnabled,
  inflight,
  busy,
  lastError,
  streamCalls,
  throwing

reqVars == <<messages, model, request>>

appVars == <<currentPaper, qaHistory, papers, library, savedKeys, activeProvider, streamingEnabled, inflight, busy, lastError>>

\* the state beyond one call's transport: left alone by the actions of Spec
parVars == <<streamCalls>>

\* the behaviour of the callback object handed to the call
cbVars == <<throwing>>

ext == <<reqVars, appVars, parVars, cbVars>>

vars == <<impl, pc, mode, provider, requests, status, body, wire, events, open, sent, nread, split, fault, log, outcome, retval, err, ext>>

\* impl      which revision of llm.js is deployed
\* pc        "idle", "awaitResponse", "reading", "done"
\* requests  the network requests issued, in order
\* status    the HTTP status of the response (0: none yet)
\* body      the JSON body of a single-shot success response
\* wire      fetch: bytes sent by the backend and not yet returned by read()
\* events    SDK: events of the async stream not yet iterated
\* open      the backend has not closed the stream
\* log       the callback invocations of the streaming call, in order
\* outcome   of the promise: "pending", "returned", "threw"
\* retval    the text a single-shot call resolved with
\* err       the error the promise rejected with
\* sent, nread, split, fault record what the backend and the transport did:
\* the frames sent, the bytes read() returned so far, whether a read ended
\* inside a line, and the failure that was injected
\* messages, model   the arguments of the call whose request is examined
\* request           the body of the request the adapter built
\* currentPaper, qaHistory   the application's global state (index.js)
\* papers, library  localStorage: the cache entry of each id, the library
\* savedKeys, activeProvider, streamingEnabled   localStorage: the settings
\* inflight          the requests awaiting their response
\* busy              the generation buttons that are disabled
\* streamCalls       two streaming calls side by side: for each its adapter's
\*                   locals and the invocations its callback object received
\* throwing          the callbacks (token, complete, error) of the callback
\*                   object that throw when invoked
\* lastError         the message the last handler passed to showError ("none"
\*                   when it showed no error: a notification is transient)

NoBody == Body(0, "none", NoValue)

IsNoise(f) == f.kind \in {"other", "bad", "field"} \/ (f.kind = "token" /\ f.text = <<>>)

NoiseSent == Cardinality({i \in 1..Len(sent) : IsNoise(sent[i])})

\* no call whose request is examined
NoArgs == messages = <<>> /\ model = NoModel /\ request = NoRequest

\* the application after DOMContentLoaded, on an empty localStorage
AppStart ==
  /\ currentPaper = NoPaper
  /\ qaHistory = <<>>
  /\ papers = [id \in PaperIds |-> NoEntry]
  /\ library = <<>>
  /\ savedKeys = [p \in Providers |-> NoKey]
  /\ activeProvider = "none"
  /\ streamingEnabled = FALSE
  /\ inflight = {}
  /\ busy = {}
  /\ lastError = "none"

\* the callbacks of the call under study return normally
NoThrow == throwing = {}

\* neither of the two side-by-side calls was made
NoCalls == streamCalls = [i \in CallIds |-> IdleCall]

Init ==
  /\ impl \in Impls
  /\ pc = "idle"
  /\ mode = "none"
  /\ provider = "none"
  /\ requests = <<>>
  /\ status = 0
  /\ body = NoBody
  /\ wire = <<>>
  /\ events = <<>>
  /\ open = FALSE
  /\ sent = <<>>
  /\ nread = 0
  /\ split = FALSE
  /\ fault = "none"
  /\ log = <<>>
  /\ outcome = "pending"
  /\ retval = NoValue
  /\ err = NoErr
  /\ NoArgs
  /\ AppStart
  /\ NoCalls
  /\ NoThrow

\* the promise of the call settles
Resolve(v) == pc' = "done" /\ outcome' = "returned" /\ retval' = v /\ err' = NoErr

Reject(e) == pc' = "done" /\ outcome' = "threw" /\ retval' = NoValue /\ err' = e

\* a failure e of a streaming adapter: reported through onError when the
\* failing statement is inside the try block, a rejected promise otherwise
Fail(e, caught) ==
  IF caught
  THEN Resolve(NoValue) /\ log' = Append(log, ErrorCall(e))
  ELSE Reject(e) /\ log' = log

\* faulty variant: the switch has no default case and falls into an adapter
RegisteredAny(p) == TRUE

\* the cases of the dispatchers' switch (provider)
Registered(p) == p \in Providers

\* callLLM / callLLMStreaming up to the adapter's first await: the switch on
\* the provider, the construction of the request, the request itself
Call(m, p, roles) ==
  /\ pc = "idle"
  /\ mode' = m
  /\ provider' = p
  /\ UNCHANGED <<ext, impl, status, body, wire, events, open, sent, nread, split>>
  /\ IF ~Registered(p)
     THEN /\ fault' = "unknown"
          /\ requests' = requests
          /\ IF m = "stream"
             THEN Resolve(NoValue) /\ log' = Append(log, ErrorCall(Err("unknown")))
             ELSE Reject(Err("unknown")) /\ log' = log
     ELSE IF BuildThrows(impl, p, Msgs(roles))
     THEN /\ fault' = "build"
          /\ requests' = requests
          /\ Fail(Err("type"), InsideTry(impl, m))
     ELSE /\ fault' = fault
          /\ requests' = Append(requests, [endpoint |-> p, stream |-> (m = "stream")])
          /\ pc' = "awaitResponse"
          /\ UNCHANGED <<log, outcome, retval, err>>

\* fetch() rejects, or the SDK's create() throws a connection error
NetworkError ==
  /\ pc = "awaitResponse"
  /\ fault' = "network"
  /\ Fail(Err("network"), InsideTry(impl, mode))
  /\ UNCHANGED <<ext, impl, mode, provider, requests, status, body, wire, events, open, sent, nread, split>>

\* the response has a non-success status: if (!response.ok) in the fetch
\* build, an APIError thrown by create() in the SDK builds
HttpFailure(s) ==
  /\ pc = "awaitResponse"
  /\ ~IsOk(s)
  /\ status' = s
  /\ fault' = "http"
  /\ Fail(HttpError(s), mode = "stream")
  /\ UNCHANGED <<ext, impl, mode, provider, requests, body, wire, events, open, sent, nread, split>>

\* a success response to a single-shot call: the text is extracted
SingleResponse(s, b) ==
  /\ pc = "awaitResponse"
  /\ mode = "single"
  /\ IsOk(s)
  /\ status' = s
  /\ body' = b
  /\ LET r == ExtractText(impl, provider, b)
     IN IF r.ok
        THEN Resolve(r.val) /\ fault' = fault
        ELSE Reject(Err("type")) /\ fault' = "shape"
  /\ UNCHANGED <<ext, impl, mode, provider, requests, wire, events, open, sent, nread, split, log>>

\* a success response to a streaming call: response.body?.getReader()
StreamResponse(s, hasReader) ==
  /\ pc = "awaitResponse"
  /\ mode = "stream"
  /\ IsOk(s)
  /\ status' = s
  /\ IF impl = "fetch" /\ ~hasReader
     THEN /\ fault' = "noreader"
          /\ Fail(Err("reader"), TRUE)
          /\ open' = open
     ELSE /\ pc' = "reading"
          /\ open' = TRUE
          /\ UNCHANGED <<fault, log, outcome, retval, err>>
  /\ UNCHANGED <<ext, impl, mode, provider, requests, body, wire, events, sent, nread, split>>

\* the text the backend generates, streamed one character per token frame
Generated == [i \in 1..MaxFrames |-> IF i % 2 = 1 THEN "a" ELSE "b"]

\* the delta of the next frame that carries text
NextDelta == <<Generated[Cardinality({i \in 1..Len(sent) : sent[i].text # <<>>}) + 1]>>

\* the frames the backend can emit next
NextFrames ==
  {f \in (IF impl = "fetch" THEN FetchFrames ELSE SdkFrames(provider)) : f.text \in {<<>>, NextDelta}}

\* the backend emits one more frame
ServerSend(f) ==
  /\ pc = "reading"
  /\ open
  /\ Len(sent) < MaxFrames
  /\ f \in NextFrames
  /\ IsNoise(f) => NoiseSent < MaxNoise
  /\ sent' = Append(sent, f)
  /\ IF impl = "fetch"
     THEN wire' = wire \o Encode(provider, f) /\ events' = events
     ELSE events' = Append(events, f) /\ wire' = wire
  /\ UNCHANGED <<ext, impl, pc, mode, provider, requests, status, body, open, nread, split, fault, log, outcome, retval, err>>

\* the backend closes the stream
ServerClose ==
  /\ pc = "reading"
  /\ open
  /\ open' = FALSE
  /\ UNCHANGED <<ext, impl, pc, mode, provider, requests, status, body, wire, events, sent, nread, split, fault, log, outcome, retval, err>>

\* fetch build: reader.read() returns the next n bytes, the chunk is split
\* into lines and every line is handled before the next read
ReadChunk(n) ==
  /\ pc = "reading"
  /\ impl = "fetch"
  /\ n \in 1..Len(wire)
  /\ LET chunk == SubSeq(wire, 1, n)
         r == ProcessLines(provider, ChunkLines(chunk))
     IN /\ wire' = SubSeq(wire, n + 1, Len(wire))
        /\ nread' = nread + n
        /\ split' = (split \/ chunk[n] # "\n")
        /\ log' = log \o r.calls
        /\ IF r.ret
           THEN Resolve(NoValue)
           ELSE UNCHANGED <<pc, outcome, retval, err>>
  /\ UNCHANGED <<ext, impl, mode, provider, requests, status, body, events, open, sent, fault>>

\* SDK builds: the for await loop takes the next event of the stream
NextEvent ==
  /\ pc = "reading"
  /\ impl # "fetch"
  /\ events # <<>>
  /\ LET r == SdkEvent(impl, provider, Head(events))
     IN /\ events' = Tail(events)
        /\ nread' = nread + 1
        /\ log' = log \o r.calls
        /\ IF r.ret
           THEN Resolve(NoValue)
           ELSE UNCHANGED <<pc, outcome, retval, err>>
  /\ UNCHANGED <<ext, impl, mode, provider, requests, status, body, wire, open, sent, split, fault>>

\* the stream is exhausted: read() returns done (break), the for await loop
\* ends; the adapter returns
EndOfStream ==
  /\ pc = "reading"
  /\ ~open
  /\ wire = <<>>
  /\ events = <<>>
  /\ Resolve(NoValue)
  /\ UNCHANGED <<ext, impl, mode, provider, requests, status, body, wire, events, open, sent, nread, split, fault, log>>

\* reader.read() rejects, or the SDK stream throws: the catch block
ReadError ==
  /\ pc = "reading"
  /\ fault' = "read"
  /\ Fail(Err("read"), TRUE)
  /\ UNCHANGED <<ext, impl, mode, provider, requests, status, body, wire, events, open, sent, nread, split>>

Next ==
  \/ pc = "idle" /\ \E m \in Modes, p \in ProviderIds, roles \in RoleSeqs : Call(m, p, roles)
  \/ NetworkError
  \/ \E s \in Statuses : HttpFailure(s)
  \/ \E s \in Statuses, b \in Bodies : SingleResponse(s, b)
  \/ \E s \in Statuses, hasReader \in BOOLEAN : StreamResponse(s, hasReader)
  \/ \E f \in FetchFrames \cup UNION {SdkFrames(p) : p \in Providers} : ServerSend(f)
  \/ ServerClose
  \/ \E n \in 1..MaxWire : ReadChunk(n)
  \/ NextEvent
  \/ EndOfStream
  \/ ReadError

Spec == Init /\ [][Next]_vars

\* ------------------------------------------ a call whose callbacks throw
\* callLLMStreaming(messages, p, key, callback) with a registered provider
\* and well-formed messages; the callbacks t of the callback object throw
CallThrowing(p, t) ==
  /\ pc = "idle"
  /\ mode' = "stream"
  /\ provider' = p
  /\ throwing' = t
  /\ requests' = Append(requests, [endpoint |-> p, stream |-> TRUE])
  /\ pc' = "awaitResponse"
  /\ UNCHANGED <<reqVars, appVars, parVars, impl, status, body, wire, events, open, sent, nread, split, fault, log, outcome, retval, err>>

\* the loop step r has run: catch (error) { callback.onError(...) } when an
\* exception reached the outer catch; an exception of onError itself
\* rejects the promise
Settle(r) ==
  /\ log' = log \o r.calls \o (IF r.raised THEN <<ErrorCall(Err("callback"))>> ELSE <<>>)
  /\ IF r.raised /\ "error" \in throwing THEN Reject(Err("callback"))
     ELSE IF r.ret THEN Resolve(NoValue)
     ELSE UNCHANGED <<pc, outcome, retval, err>>

\* ReadChunk with the callbacks of the call throwing
ReadChunkThrowing(n) ==
  /\ pc = "reading"
  /\ impl = "fetch"
  /\ n \in 1..Len(wire)
  /\ LET chunk == SubSeq(wire, 1, n)
     IN /\ wire' = SubSeq(wire, n + 1, Len(wire))
        /\ nread' = nread + n
        /\ split' = (split \/ chunk[n] # "\n")
        /\ Settle(ProcessLinesThrowing(provider, ChunkLines(chunk), throwing))
  /\ UNCHANGED <<ext, impl, mode, provider, requests, status, body, events, open, sent, fault>>

\* NextEvent with the callbacks of the call throwing
NextEventThrowing ==
  /\ pc = "reading"
  /\ impl # "fetch"
  /\ events # <<>>
  /\ events' = Tail(events)
  /\ nread' = nread + 1
  /\ Settle(SdkEventThrowing(impl, provider, Head(events), throwing))
  /\ UNCHANGED <<ext, impl, mode, provider, requests, status, body, wire, open, sent, split, fault>>

NextThrowing ==
  \/ \E p \in Providers, t \in SUBSET CallbackKinds : CallThrowing(p, t)
  \/ \E s \in Statuses, hasReader \in BOOLEAN : StreamResponse(s, hasReader)
  \/ \E f \in FetchFrames \cup UNION {SdkFrames(p) : p \in Providers} : ServerSend(f)
  \/ ServerClose
  \/ \E n \in 1..MaxWire : ReadChunkThrowing(n)
  \/ NextEventThrowing
  \/ EndOfStream

SpecThrowing == Init /\ [][NextThrowing]_vars

\* ------------------------------------------- the request an adapter builds
\* callLLM / callLLMStreaming as Call, keeping the arguments and the body of
\* the request
BuildRequest(m, p, roles, mdl) ==
  /\ pc = "idle"
  /\ Registered(p)
  /\ ~BuildThrows(impl, p, Msgs(roles))
  /\ HasModelParam(impl) \/ mdl = NoModel
  /\ mode' = m
  /\ provider' = p
  /\ messages' = Msgs(roles)
  /\ model' = mdl
  /\ request' = RequestBody(impl, p, Msgs(roles), mdl)
  /\ requests' = Append(requests, [endpoint |-> p, stream |-> (m = "stream")])
  /\ pc' = "awaitResponse"
  /\ UNCHANGED <<impl, status, body, wire, events, open, sent, nread, split, fault, log, outcome, retval, err, appVars, parVars, cbVars>>

NextReq == \E m \in Modes, p \in Providers, roles \in RoleSeqs, mdl \in ModelArgs : BuildRequest(m, p, roles, mdl)

SpecReq == Init /\ [][NextReq]_vars

\* ------------------------------------------------------- the application
llmVars == <<impl, pc, mode, provider, requests, status, body, wire, events, open, sent, nread, split, fault, log, outcome, retval, err>>

\* savedKeys[provider], undefined for a provider that is none of the three
KeyOf(p) == IF p \in Providers THEN savedKeys[p] ELSE NoKey

\* faulty variant: a provider counts as selected without a saved key
SelectedAlways == TRUE

\* faulty variant: the stored record is returned without looking up its key
SelectedStale == activeProvider # "none"

\* getSelectedProvider() / getActiveProvider() return a provider: one is
\* stored as active and it has a saved key
Selected == activeProvider # "none" /\ KeyOf(activeProvider) # NoKey

\* faulty variant: the key of the first provider is returned
SelectedKeyFirst == KeyOf("openai")

\* apiKey: savedKeys[activeProvider.provider]
SelectedKey == KeyOf(activeProvider)

\* the active-provider record after getActiveProvider(): a record without a
\* saved key is removed
Resolved == IF Selected THEN activeProvider ELSE "none"

\* the user starts a request when the previous one has been answered
Sequential == inflight = {}

\* getStreamingEnabled() ? callLLMStreaming : callLLM
AppMode == IF streamingEnabled THEN "stream" ELSE "single"

\* showError(message); return
Refuse(message) ==
  /\ lastError' = message
  /\ UNCHANGED <<currentPaper, qaHistory, papers, library, savedKeys, streamingEnabled, inflight, busy>>

\* cachePaper(paperData, cur, qa): the cache entry and the library
CachePaper(paperData, cur, qa) ==
  /\ papers' = [papers EXCEPT ![paperData.id] = CacheData(paperData, cur, qa)]
  /\ library' = UpdateLibrary(library, paperData.id)

\* currentPaper and qaHistory are bound to new objects: a loadPaper call in
\* flight keeps the objects it was handed
Detach(flights) ==
  {IF c.kind = "load" /\ c.live
   THEN [c EXCEPT !.live = FALSE, !.paper = currentPaper, !.qa = qaHistory]
   ELSE c : c \in flights}

\* generateSummary, extractConcepts, generateAccessible up to the LLM call
Generate(f) ==
  /\ f \notin busy
  /\ IF currentPaper = NoPaper
     THEN Refuse("noPaper") /\ activeProvider' = activeProvider
     ELSE IF ~Selected
     THEN Refuse("noProvider") /\ activeProvider' = Resolved
     ELSE /\ Sequential
          /\ busy' = busy \cup {f}
          /\ inflight' = inflight \cup {LLMFlight(f, AppMode, activeProvider, SelectedKey, currentPaper.id, "", <<>>)}
          /\ lastError' = "none" /\ UNCHANGED <<currentPaper, qaHistory, papers, library, savedKeys, activeProvider, streamingEnabled>>
  /\ UNCHANGED <<llmVars, reqVars, parVars, cbVars>>

\* what the user can have typed into the question box
Typed == {"", Questions[IF Len(qaHistory) <= MaxQA THEN Len(qaHistory) ELSE MaxQA]}

\* askQuestion up to the LLM call: in streaming mode the question is pushed
\* with a placeholder answer before the call
AskQuestion(q) ==
  /\ "question" \notin busy
  /\ q \in Typed
  /\ IF q = ""
     THEN Refuse("noQuestion") /\ activeProvider' = activeProvider
     ELSE IF currentPaper = NoPaper
     THEN Refuse("noPaper") /\ activeProvider' = activeProvider
     ELSE IF ~Selected
     THEN Refuse("noProvider") /\ activeProvider' = Resolved
     ELSE /\ Sequential
          /\ Len(qaHistory) < MaxQA
          /\ busy' = busy \cup {"question"}
          /\ inflight' = inflight \cup {LLMFlight("question", AppMode, activeProvider, SelectedKey, currentPaper.id, q, qaHistory)}
          /\ qaHistory' = IF streamingEnabled THEN Append(qaHistory, QA(q, "thinking")) ELSE qaHistory
          /\ lastError' = "none" /\ UNCHANGED <<currentPaper, papers, library, savedKeys, activeProvider, streamingEnabled>>
  /\ UNCHANGED <<llmVars, reqVars, parVars, cbVars>>

\* onToken of askQuestion: the answer so far is written into the last entry
\* of qaHistory (the tokens of the other operations only reach the page)
QuestionToken ==
  /\ qaHistory # <<>>
  /\ \E c \in inflight :
       /\ c.kind = "question" /\ c.mode = "stream"
       /\ qaHistory' = [qaHistory EXCEPT ![Len(qaHistory)].answer = c.id]
  /\ lastError' = "none" /\ UNCHANGED <<currentPaper, papers, library, savedKeys, activeProvider, streamingEnabled, inflight, busy>>
  /\ UNCHANGED <<llmVars, reqVars, parVars, cbVars>>

\* array.pop()
Pop(h) == IF h = <<>> THEN <<>> ELSE SubSeq(h, 1, Len(h) - 1)

\* the LLM call of generateSummary / extractConcepts / generateAccessible
\* ends: the result is stored on currentPaper and cached (onComplete, or
\* after the await), the error is shown (onError, catch), or the stream ends
\* without a callback
GenerateDone(f, out) ==
  \E c \in inflight :
  /\ c.kind = f
  /\ out \in Outcomes(c.mode)
  /\ inflight' = inflight \ {c}
  /\ IF out \in {"complete", "returned"}
     THEN LET paper == [currentPaper EXCEPT !.gen[c.kind] = c.id]
          IN /\ currentPaper' = paper
             /\ CachePaper(paper, paper, qaHistory)
             /\ busy' = busy \ {c.kind}
             /\ lastError' = "none"
     ELSE IF out \in {"error", "threw"}
     THEN /\ lastError' = "llmError"
          /\ busy' = busy \ {c.kind}
          /\ UNCHANGED <<currentPaper, papers, library>>
     ELSE lastError' = "none" /\ UNCHANGED <<currentPaper, papers, library, busy>>
  /\ UNCHANGED <<qaHistory, savedKeys, activeProvider, streamingEnabled>>
  /\ UNCHANGED <<llmVars, reqVars, parVars, cbVars>>

\* the LLM call of askQuestion ends.  Streaming: onComplete caches, onError
\* pops; regular: the answer is pushed and cached; the catch block pops
QuestionDone(out) ==
  \E c \in inflight :
  /\ c.kind = "question"
  /\ out \in Outcomes(c.mode)
  /\ inflight' = inflight \ {c}
  /\ IF out = "complete"
     THEN /\ CachePaper(currentPaper, currentPaper, qaHistory)
          /\ busy' = busy \ {"question"}
          /\ lastError' = "none" /\ UNCHANGED <<qaHistory>>
     ELSE IF out = "returned"
     THEN /\ Len(qaHistory) < MaxQA
          /\ qaHistory' = Append(qaHistory, QA(c.q, c.id))
          /\ CachePaper(currentPaper, currentPaper, Append(qaHistory, QA(c.q, c.id)))
          /\ busy' = busy \ {"question"}
          /\ lastError' = "none"
     ELSE IF out \in {"error", "threw"}
     THEN /\ qaHistory' = Pop(qaHistory)
          /\ lastError' = "llmError"
          /\ busy' = busy \ {"question"}
          /\ UNCHANGED <<papers, library>>
     ELSE lastError' = "none" /\ UNCHANGED <<qaHistory, papers, library, busy>>
  /\ UNCHANGED <<currentPaper, savedKeys, activeProvider, streamingEnabled>>
  /\ UNCHANGED <<llmVars, reqVars, parVars, cbVars>>

\* handleLoadPaper -> loadPaper(currentPaper, qaHistory, false, callback) up
\* to the fetch: with fromCache = false the cache entry is never used
HandleLoadPaper(id) ==
  /\ IF id = ""
     THEN Refuse("invalidId")
     ELSE /\ Sequential
          /\ inflight' = inflight \cup {LoadFlight(id)}
          /\ lastError' = "none" /\ UNCHANGED <<currentPaper, qaHistory, papers, library, savedKeys, streamingEnabled, busy>>
  /\ UNCHANGED <<activeProvider, llmVars, reqVars, parVars, cbVars>>

\* faulty variant: handleLoadPaper installs the result without testing it,
\* so a failed load leaves no current paper and an empty history
LoadDoneUnchecked(ok) ==
  \E c \in inflight :
  /\ c.kind = "load"
  /\ IF ok
     THEN /\ CachePaper(PaperData(c.id), IF c.live THEN currentPaper ELSE c.paper, IF c.live THEN qaHistory ELSE c.qa)
          /\ currentPaper' = PaperData(c.id)
          /\ qaHistory' = <<>>
          /\ inflight' = Detach(inflight \ {c})
          /\ lastError' = "none"
     ELSE /\ lastError' = "loadError"
          /\ currentPaper' = NoPaper
          /\ qaHistory' = <<>>
          /\ inflight' = inflight \ {c}
          /\ UNCHANGED <<papers, library>>
  /\ UNCHANGED <<savedKeys, activeProvider, streamingEnabled, busy>>
  /\ UNCHANGED <<llmVars, reqVars, parVars, cbVars>>

\* the proxy answers: the paper is cached with the summary, concepts,
\* readable and history of the objects loadPaper was handed, and becomes the
\* current paper with an empty history; or the error is shown
LoadDone(ok) ==
  \E c \in inflight :
  /\ c.kind = "load"
  /\ IF ok
     THEN /\ CachePaper(PaperData(c.id), IF c.live THEN currentPaper ELSE c.paper, IF c.live THEN qaHistory ELSE c.qa)
          /\ currentPaper' = PaperData(c.id)
          /\ qaHistory' = <<>>
          /\ inflight' = Detach(inflight \ {c})
          /\ lastError' = "none"
     ELSE /\ lastError' = "loadError"
          /\ inflight' = inflight \ {c}
          /\ UNCHANGED <<currentPaper, qaHistory, papers, library>>
  /\ UNCHANGED <<savedKeys, activeProvider, streamingEnabled, busy>>
  /\ UNCHANGED <<llmVars, reqVars, parVars, cbVars>>

\* handleLoadCachedPaper -> loadCachedPaper -> loadFromCache
HandleLoadCachedPaper(id) ==
  /\ IF papers[id].cached
     THEN /\ currentPaper' = FromCache(id, papers[id])
          /\ qaHistory' = papers[id].qa
          /\ inflight' = Detach(inflight)
     ELSE UNCHANGED <<currentPaper, qaHistory, inflight>>
  /\ lastError' = "none" /\ UNCHANGED <<papers, library, savedKeys, activeProvider, streamingEnabled, busy>>
  /\ UNCHANGED <<llmVars, reqVars, parVars, cbVars>>

\* saveApiKeyFromUI: saveApiKey(provider, apiKey); setActiveProvider(provider)
SaveApiKeyFromUI(p, k) ==
  /\ IF k = NoKey
     THEN Refuse("noKey") /\ activeProvider' = activeProvider
     ELSE /\ savedKeys' = [savedKeys EXCEPT ![p] = k]
          /\ activeProvider' = p
          /\ lastError' = "none" /\ UNCHANGED <<currentPaper, qaHistory, papers, library, streamingEnabled, inflight, busy>>
  /\ UNCHANGED <<llmVars, reqVars, parVars, cbVars>>

\* setActiveProviderFromUI -> setActiveProvider: only with a saved key
SetActiveProviderFromUI(p) ==
  /\ activeProvider' = IF savedKeys[p] # NoKey THEN p ELSE activeProvider
  /\ lastError' = "none" /\ UNCHANGED <<currentPaper, qaHistory, papers, library, savedKeys, streamingEnabled, inflight, busy>>
  /\ UNCHANGED <<llmVars, reqVars, parVars, cbVars>>

\* removeApiKeyFromUI -> removeApiKey
RemoveApiKeyFromUI(p) ==
  /\ savedKeys' = RemoveKey(savedKeys, p)
  /\ activeProvider' = IF activeProvider = p THEN "none" ELSE Resolved
  /\ lastError' = "none" /\ UNCHANGED <<currentPaper, qaHistory, papers, library, streamingEnabled, inflight, busy>>
  /\ UNCHANGED <<llmVars, reqVars, parVars, cbVars>>

\* clearActiveProviderFromUI -> clearActiveProvider
ClearActiveProviderFromUI ==
  /\ activeProvider' = "none"
  /\ lastError' = "none" /\ UNCHANGED <<currentPaper, qaHistory, papers, library, savedKeys, streamingEnabled, inflight, busy>>
  /\ UNCHANGED <<llmVars, reqVars, parVars, cbVars>>

\* clearAllKeysFromUI -> clearAllKeys
ClearAllKeysFromUI ==
  /\ savedKeys' = [p \in Providers |-> NoKey]
  /\ activeProvider' = "none"
  /\ lastError' = "none" /\ UNCHANGED <<currentPaper, qaHistory, papers, library, streamingEnabled, inflight, busy>>
  /\ UNCHANGED <<llmVars, reqVars, parVars, cbVars>>

\* toggleStreaming -> setStreamingEnabled(checkbox.checked)
ToggleStreaming ==
  /\ streamingEnabled' = ~streamingEnabled
  /\ lastError' = "none" /\ UNCHANGED <<currentPaper, qaHistory, papers, library, savedKeys, activeProvider, inflight, busy>>
  /\ UNCHANGED <<llmVars, reqVars, parVars, cbVars>>

\* saveApiKey(provider, apiKey) called as such: any string is stored, the
\* empty one too, and the active-provider record is left alone
SaveApiKey(p, k) ==
  /\ savedKeys' = [savedKeys EXCEPT ![p] = k]
  /\ lastError' = "none" /\ UNCHANGED <<currentPaper, qaHistory, papers, library, activeProvider, streamingEnabled, inflight, busy>>
  /\ UNCHANGED <<llmVars, reqVars, parVars, cbVars>>

\* getActiveProvider() (hasActiveProvider, updateActiveProviderDisplay): a
\* record whose provider has no saved key is removed
GetActiveProvider ==
  /\ activeProvider' = Resolved
  /\ lastError' = "none" /\ UNCHANGED <<currentPaper, qaHistory, papers, library, savedKeys, streamingEnabled, inflight, busy>>
  /\ UNCHANGED <<llmVars, reqVars, parVars, cbVars>>

\* deletePaper -> deleteCachedPaper: removeItem(cacheKey), removeFromLibrary
DeletePaper(id) ==
  /\ papers' = [papers EXCEPT ![id] = NoEntry]
  /\ library' = RemoveFromLibrary(library, id)
  /\ lastError' = "none" /\ UNCHANGED <<currentPaper, qaHistory, savedKeys, activeProvider, streamingEnabled, inflight, busy>>
  /\ UNCHANGED <<llmVars, reqVars, parVars, cbVars>>

\* clearCache -> clearAllCache: the cache entry of every library entry is
\* removed, then the library
ClearCache ==
  /\ papers' = [id \in PaperIds |-> IF id \in LibraryIds(library) THEN NoEntry ELSE papers[id]]
  /\ library' = <<>>
  /\ lastError' = "none" /\ UNCHANGED <<currentPaper, qaHistory, savedKeys, activeProvider, streamingEnabled, inflight, busy>>
  /\ UNCHANGED <<llmVars, reqVars, parVars, cbVars>>

QuestionTexts == {""} \cup {Questions[n] : n \in 0..MaxQA}

AllOutcomes == Outcomes("stream") \cup Outcomes("single")

\* the application with one provider and one key: the paper side
AppProviders == {"openai"}

AppKeys == {"k1"}

AppOps == {"summary", "accessible"}

AppPapers == {"A"}

InitApp == Init /\ impl = "fetch"

NextApp ==
  \/ \E f \in AppOps : Generate(f)
  \/ \E q \in QuestionTexts : AskQuestion(q)
  \/ QuestionToken
  \/ \E f \in AppOps, out \in AllOutcomes : GenerateDone(f, out)
  \/ \E out \in AllOutcomes : QuestionDone(out)
  \/ \E id \in AppPapers \cup {""} : HandleLoadPaper(id)
  \/ \E ok \in BOOLEAN : LoadDone(ok)
  \/ \E id \in AppPapers : HandleLoadCachedPaper(id)
  \/ \E p \in AppProviders, k \in AppKeys \cup {NoKey} : SaveApiKeyFromUI(p, k)
  \/ \E p \in AppProviders : SetActiveProviderFromUI(p)
  \/ \E p \in AppProviders : RemoveApiKeyFromUI(p)
  \/ ClearActiveProviderFromUI
  \/ ClearAllKeysFromUI
  \/ ToggleStreaming

SpecApp == InitApp /\ [][NextApp]_vars

\* the application with every provider and two keys: the credential side
KeysOps == {"summary"}

NextKeys ==
  \/ \E p \in Providers, k \in Keys \cup {NoKey} : SaveApiKeyFromUI(p, k)
  \/ \E p \in Providers : SetActiveProviderFromUI(p)
  \/ \E p \in Providers : RemoveApiKeyFromUI(p)
  \/ ClearActiveProviderFromUI
  \/ ClearAllKeysFromUI
  \/ ToggleStreaming
  \/ \E id \in AppPapers : HandleLoadPaper(id)
  \/ \E ok \in BOOLEAN : LoadDone(ok)
  \/ \E f \in KeysOps : Generate(f)
  \/ \E f \in KeysOps, out \in AllOutcomes : GenerateDone(f, out)
  \/ \E q \in QuestionTexts : AskQuestion(q)
  \/ \E out \in AllOutcomes : QuestionDone(out)

SpecKeys == InitApp /\ [][NextKeys]_vars

\* the application with two papers and streaming left disabled: the library
\* side
LibOps == {"summary"}

NextLib ==
  \/ SaveApiKeyFromUI("openai", "k1")
  \/ \E id \in PaperIds : HandleLoadPaper(id)
  \/ \E ok \in BOOLEAN : LoadDone(ok)
  \/ \E id \in PaperIds : HandleLoadCachedPaper(id)
  \/ \E f \in LibOps : Generate(f)
  \/ \E f \in LibOps, out \in AllOutcomes : GenerateDone(f, out)
  \/ \E q \in QuestionTexts : AskQuestion(q)
  \/ \E out \in AllOutcomes : QuestionDone(out)

SpecLib == InitApp /\ [][NextLib]_vars

\* the API key functions of cache.js called in any order: the settings side
NextStore ==
  \/ \E p \in Providers, k \in Keys \cup {NoKey} : SaveApiKey(p, k)
  \/ \E p \in Providers : RemoveApiKeyFromUI(p)
  \/ \E p \in Providers : SetActiveProviderFromUI(p)
  \/ ClearActiveProviderFromUI
  \/ ClearAllKeysFromUI
  \/ GetActiveProvider
  \/ ToggleStreaming

SpecStore == InitApp /\ [][NextStore]_vars

\* the paper cache and the library of two papers, with everything that
\* calls cachePaper, deleteCachedPaper or clearAllCache: the cache side
NextCache ==
  \/ SaveApiKeyFromUI("openai", "k1")
  \/ ToggleStreaming
  \/ \E id \in PaperIds : HandleLoadPaper(id)
  \/ \E ok \in BOOLEAN : LoadDone(ok)
  \/ \E id \in PaperIds : HandleLoadCachedPaper(id)
  \/ \E id \in PaperIds : DeletePaper(id)
  \/ ClearCache
  \/ \E f \in LibOps : Generate(f)
  \/ \E f \in LibOps, out \in AllOutcomes : GenerateDone(f, out)

SpecCache == InitApp /\ [][NextCache]_vars

\* ------------------------------------ two streaming calls at the same time
\* callLLMStreaming(messages, p, key, callback_i): the request is answered
\* with a 200 response whose body is being streamed
ParStart(i, p) ==
  /\ streamCalls[i].pc = "idle"
  /\ streamCalls' = [streamCalls EXCEPT ![i].pc = "reading", ![i].provider = p, ![i].open = TRUE]
  /\ UNCHANGED <<llmVars, reqVars, appVars, cbVars>>

\* the backend sends call i one more frame: text ("a" to call 1, "b" to
\* call 2) or the terminal marker
ParSend(i, k) ==
  /\ streamCalls[i].pc = "reading"
  /\ streamCalls[i].open
  /\ streamCalls[i].nsent < MaxParFrames
  /\ LET f == IF k = "stop" THEN StopFrame ELSE Frame("token", IF i = 1 THEN <<"a">> ELSE <<"b">>)
     IN streamCalls' = [streamCalls EXCEPT ![i].wire = @ \o Encode(streamCalls[i].provider, f), ![i].nsent = @ + 1]
  /\ UNCHANGED <<llmVars, reqVars, appVars, cbVars>>

ParClose(i) ==
  /\ streamCalls[i].pc = "reading"
  /\ streamCalls[i].open
  /\ streamCalls' = [streamCalls EXCEPT ![i].open = FALSE]
  /\ UNCHANGED <<llmVars, reqVars, appVars, cbVars>>

\* call i: reader.read() returns the bytes received so far (whole frames),
\* every line of the chunk is handled
ParRead(i) ==
  /\ streamCalls[i].pc = "reading"
  /\ streamCalls[i].wire # <<>>
  /\ LET r == ProcessLines(streamCalls[i].provider, ChunkLines(streamCalls[i].wire))
         st == [streamCalls EXCEPT ![i].wire = <<>>,
                                   ![i].pc = IF r.ret THEN "done" ELSE "reading"]
     IN streamCalls' = Deliver(r.calls, i, st)
  /\ UNCHANGED <<llmVars, reqVars, appVars, cbVars>>

\* call i: read() returns done
ParEnd(i) ==
  /\ streamCalls[i].pc = "reading"
  /\ ~streamCalls[i].open
  /\ streamCalls[i].wire = <<>>
  /\ streamCalls' = [streamCalls EXCEPT ![i].pc = "done"]
  /\ UNCHANGED <<llmVars, reqVars, appVars, cbVars>>

\* call i: read() rejects, the catch block calls onError
ParError(i) ==
  /\ streamCalls[i].pc = "reading"
  /\ streamCalls' = Deliver(<<ErrorCall(Err("read"))>>, i, [streamCalls EXCEPT ![i].pc = "done"])
  /\ UNCHANGED <<llmVars, reqVars, appVars, cbVars>>

InitPar == Init /\ impl = "fetch"

NextPar ==
  \/ \E i \in CallIds, p \in Providers : ParStart(i, p)
  \/ \E i \in CallIds, k \in {"token", "stop"} : ParSend(i, k)
  \/ \E i \in CallIds : ParClose(i)
  \/ \E i \in CallIds : ParRead(i)
  \/ \E i \in CallIds : ParEnd(i)
  \/ \E i \in CallIds : ParError(i)

SpecPar == InitPar /\ [][NextPar]_vars

\* --------------------------------------------------- reading the history
NumCalls(k) == Cardinality({i \in 1..Len(log) : log[i].cb = k})

Terminated == NumCalls("complete") + NumCalls("error") > 0

RECURSIVE TokenTexts(_)
\* the fragments passed to onToken, in emission order
TokenTexts(calls) ==
  IF calls = <<>> THEN <<>>
  ELSE IF Head(calls).cb = "token" THEN <<Head(calls).text>> \o TokenTexts(Tail(calls))
  ELSE TokenTexts(Tail(calls))

Streaming == mode = "stream" /\ pc \in {"reading", "done"} /\ IsOk(status)

StopsSent == {i \in 1..Len(sent) : sent[i].kind = "stop"}

\* index of the first terminal marker among the first n frames sent, else 0
FirstStop(n) == IF StopsSent \cap 1..n = {} THEN 0 ELSE CHOOSE i \in StopsSent \cap 1..n : \A j \in StopsSent : i <= j

RECURSIVE FramesWithin(_, _)
\* how many of the frames lie entirely within the first n bytes of the body
FramesWithin(frames, n) ==
  IF frames = <<>> THEN 0
  ELSE LET l == Len(Encode(provider, Head(frames)))
       IN IF l <= n THEN 1 + FramesWithin(Tail(frames), n - l) ELSE 0

\* the frames the adapter has been handed so far
FramesRead == IF impl = "fetch" THEN FramesWithin(sent, nread) ELSE nread

IsTokenFrame(f) == f.kind = "token" /\ f.text # <<>>

RECURSIVE DeltaCalls(_)
\* the onToken calls owed for a sequence of frames
DeltaCalls(frames) ==
  IF frames = <<>> THEN <<>>
  ELSE IF Head(frames).text # <<>> THEN <<TokenCall(Head(frames).text)>> \o DeltaCalls(Tail(frames))
  ELSE DeltaCalls(Tail(frames))

\* the text the backend generated: the deltas up to the terminal marker
Answer ==
  LET s == FirstStop(Len(sent))
  IN ConcatAll(TokenTexts(DeltaCalls(SubSeq(sent, 1, IF s = 0 THEN Len(sent) ELSE s))))

\* ------------------------------------------------------------------ C1
\* C1: in one streaming call onComplete is invoked at most once, onError is
\* invoked at most once, and never both, whatever the transport does.
C1_OneTerminal ==
  /\ NumCalls("complete") <= 1
  /\ NumCalls("error") <= 1
  /\ NumCalls("complete") + NumCalls("error") <= 1

\* a completed call whose transport carried a second terminal marker
C1_Witness ==
  /\ mode = "stream"
  /\ pc = "done"
  /\ NumCalls("complete") = 1
  /\ Cardinality(StopsSent) >= 2
  /\ FramesRead = Len(sent)

\* ------------------------------------------------------------------ C2
\* C2 (as claimed): a stream that ends without a terminal marker resolves
\* the call with exactly one onComplete.
C2_ImplicitCompletion ==
  (mode = "stream" /\ pc = "done" /\ fault = "none" /\ IsOk(status) /\ StopsSent = {})
    => (outcome = "returned" /\ NumCalls("complete") = 1)

\* ------------------------------------------------------------------ C3
\* C3 (as claimed): a streaming call never rejects, and every failure is
\* delivered as exactly one onError, the last callback of the call.
C3_ErrorsViaCallback ==
  mode = "stream" =>
    /\ outcome # "threw"
    /\ (pc = "done" /\ fault # "none") =>
         (NumCalls("error") = 1 /\ log[Len(log)].cb = "error" /\ NumCalls("complete") = 0)

\* ------------------------------------------------------------------ C4
\* the first k frames sent are token frames and frame k + 1, if sent, is the
\* terminal marker
TokenRun(k) ==
  /\ k <= Len(sent)
  /\ \A i \in 1..k : IsTokenFrame(sent[i])
  /\ k < Len(sent) => sent[k + 1] = StopFrame

\* C4: when the transport delivers n token frames and then the terminal
\* marker, each frame in a read of its own or with other whole frames,
\* onToken is invoked once per frame, in arrival order and before the next
\* frame is read, then onComplete once, and onError never.
C4_TokensInOrder ==
  (Streaming /\ ~split /\ fault = "none") =>
    \A k \in 0..Len(sent) :
      TokenRun(k) =>
        IF FramesRead <= k
        THEN log = [i \in 1..FramesRead |-> TokenCall(sent[i].text)]
        ELSE /\ log = [i \in 1..k |-> TokenCall(sent[i].text)] \o <<CompleteCall>>
             /\ pc = "done"
             /\ outcome = "returned"

\* two different tokens and the terminal marker, all delivered
C4_Witness ==
  /\ Streaming
  /\ ~split
  /\ pc = "done"
  /\ sent = <<Frame("token", <<"a">>), Frame("token", <<"b">>), StopFrame>>
  /\ log = <<TokenCall(<<"a">>), TokenCall(<<"b">>), CompleteCall>>

\* ------------------------------------------------------------------ C5
\* C5: once onComplete or onError has been invoked no further callback is
\* invoked, also when the transport still holds frames; the terminal
\* callback is the last entry of the call's log and ends the call.
IsTerminal(c) == c.cb \in {"complete", "error"}

C5_TerminalAbsorbing ==
  /\ [](Terminated => /\ pc = "done"
                       /\ IsTerminal(log[Len(log)])
                       /\ \A i \in 1..(Len(log) - 1) : log[i].cb = "token")
  /\ [][Terminated => log' = log]_vars

\* the adapter completed while a token frame behind the terminal marker was
\* still in the transport or in the chunk being handled
C5_Witness ==
  /\ mode = "stream"
  /\ pc = "done"
  /\ log # <<>>
  /\ log[Len(log)].cb = "complete"
  /\ \E i \in StopsSent : \E j \in (i + 1)..Len(sent) : IsTokenFrame(sent[j])

\* ------------------------------------------------------------------ C6
\* C6: in the fetch build a frame that is not valid JSON causes no callback
\* and does not end the stream: the log is exactly the tokens of the valid
\* frames read so far, followed by onComplete once the marker is read.
C6_MalformedSkipped ==
  (Streaming /\ impl = "fetch" /\ ~split /\ fault = "none") =>
    LET s == FirstStop(FramesRead)
        n == IF s = 0 THEN FramesRead ELSE s - 1
    IN /\ log = DeltaCalls(SubSeq(sent, 1, n)) \o (IF s = 0 THEN <<>> ELSE <<CompleteCall>>)
       /\ NumCalls("error") = 0
       /\ s # 0 => pc = "done"
       /\ s = 0 => (pc = "reading" \/ (~open /\ wire = <<>>))

\* a malformed frame between two valid token frames, then the marker
C6_Witness ==
  /\ impl = "fetch"
  /\ pc = "done"
  /\ ~split
  /\ sent = <<Frame("token", <<"a">>), Frame("bad", <<>>), Frame("token", <<"b">>), StopFrame>>
  /\ log = <<TokenCall(<<"a">>), TokenCall(<<"b">>), CompleteCall>>

\* ------------------------------------------------------------------ C7
\* C7 (as claimed): for every provider and every way the body is cut into
\* reads, the concatenation of the onToken fragments of a completed stream
\* is the text callLLM returns for the same answer sent as one response.
C7_StreamEqualsWhole ==
  (Streaming /\ pc = "done" /\ fault = "none" /\ NumCalls("complete") = 1) =>
    LET whole == ExtractText(impl, provider, Body(1, "text", Str(Answer)))
    IN whole.ok /\ whole.val = Str(ConcatAll(TokenTexts(log)))

\* ------------------------------------------------------------------ C8
\* C8: a non-success HTTP status makes callLLM throw an error carrying the
\* status and makes callLLMStreaming invoke onError once and nothing else;
\* the call ends there with its single request.
C8_HttpFailure ==
  fault = "http" =>
    /\ pc = "done"
    /\ Len(requests) = 1
    /\ status \in Statuses /\ ~(status \in 200..299)
    /\ mode = "single" => (outcome = "threw" /\ err.kind = "http" /\ err.status = status /\ log = <<>>)
    /\ mode = "stream" => (outcome = "returned" /\ Len(log) = 1 /\ log[1].cb = "error"
                             /\ log[1].err.kind = "http" /\ log[1].err.status = status)

C8_Witness ==
  /\ fault = "http"
  /\ mode = "single"
  /\ status = 401
  /\ err.status = 401

\* ------------------------------------------------------------------ C9
\* C9: for an unregistered provider id callLLM throws the unknown-provider
\* error without a request; callLLMStreaming does not throw and invokes
\* onError once, and neither onToken nor onComplete.
C9_UnknownProvider ==
  (pc # "idle" /\ provider \notin Providers) =>
    /\ requests = <<>>
    /\ pc = "done"
    /\ mode = "single" => (outcome = "threw" /\ err.kind = "unknown" /\ log = <<>>)
    /\ mode = "stream" => (outcome = "returned" /\ log = <<ErrorCall(Err("unknown"))>>)

C9_Witness ==
  /\ provider = "madeup"
  /\ mode = "stream"
  /\ pc = "done"
  /\ NumCalls("error") = 1

\* ----------------------------------------------------------------- C10
Textless(b) == b.blocks = 0 \/ b.btype # "text" \/ b.text \in {Undefined, Null, Str(<<>>)}

\* C10 (as claimed): a success response without text makes callLLM return
\* the empty string, for every adapter.
C10_EmptyResponse ==
  (mode = "single" /\ pc = "done" /\ IsOk(status) /\ Textless(body))
    => (outcome = "returned" /\ retval = Str(<<>>))

\* ----------------------------------------------------------------- C11
\* a request was built and is still being answered
Built == pc = "awaitResponse" /\ request # NoRequest

\* the adapters that send the whole history
MultiTurn == provider \in {"openai", "anthropic"} \/ (provider = "cohere" /\ impl = "sdkV2")

\* what the request holds in its system slot: the system field, or the
\* system entries of a messages array that has no separate slot
SystemSlot(r) ==
  IF r.shape = "chat"
  THEN LET sys == SelectSeq(r.messages, LAMBDA m : m.role = "system")
       IN [i \in 1..Len(sys) |-> sys[i].content]
  ELSE r.system

Conversation(r) == SelectSeq(r.messages, LAMBDA m : m.role # "system")

SystemMessages(msgs) == SelectSeq(msgs, LAMBDA m : m.role = "system")

\* C11: for an adapter that sends the whole history, the conversation slot of
\* the request holds exactly the non-system messages, in order, assistant
\* messages as assistant and the others as user, and the content of the
\* system message (if there is one; nothing if there is none) is in the
\* system slot
C11_RequestShape ==
  (Built /\ MultiTurn) =>
    /\ Conversation(request) = [i \in 1..Len(NonSystem(messages)) |-> AsUserOrAssistant(NonSystem(messages)[i])]
    /\ Len(SystemMessages(messages)) <= 1 =>
         SystemSlot(request) = [i \in 1..Len(SystemMessages(messages)) |-> SystemMessages(messages)[i].content]

\* the request built by the Anthropic adapter from S, U1, A1, U2
C11_Witness ==
  /\ Built
  /\ provider = "anthropic"
  /\ messages = Msgs(<<"system", "user", "assistant", "user">>)
  /\ request.system = <<1>>
  /\ Len(request.messages) = 3

\* ----------------------------------------------------------------- C12
UserMessages(msgs) == SelectSeq(msgs, LAMBDA m : m.role = "user")

\* C12: the Cohere adapter sends the content of the last user message as its
\* message and the system message as preamble, and nothing else, whatever
\* the message sequence
C12_CohereLastUser ==
  (Built /\ provider = "cohere" /\ UserMessages(messages) # <<>>) =>
    /\ request.shape = "preamble"
    /\ request.system = SystemContent(messages)
    /\ request.messages = <<[role |-> "user", content |-> UserMessages(messages)[Len(UserMessages(messages))].content]>>

\* ----------------------------------------------------------------- C13
\* C13: a call with a registered provider has issued exactly one request, to
\* that provider's endpoint, at every point after the dispatch
C13_OneRequest ==
  (pc # "idle" /\ Registered(provider)) =>
    /\ Len(requests) = 1
    /\ requests[1].endpoint = provider

\* ----------------------------------------------------------------- C18
\* C18: the request carries the model that was supplied, and the first entry
\* of the provider's available-model list when none was supplied
C18_DefaultModel ==
  Built =>
    request.model = IF model # NoModel THEN model ELSE AvailableModels(provider)[1]

\* both cases: a streaming request without a model, one with a model
C18_Witness ==
  /\ Built
  /\ mode = "stream"
  /\ impl # "fetch"
  /\ model = NoModel
  /\ request.model = "claude-opus-4-1-20250805"

\* ----------------------------------------------------------------- C14
\* C14: every request that is issued carries no key when it goes to the
\* paper-fetch proxy, and when it goes to a provider's endpoint it carries
\* the key saved for that very provider
C14_KeyToOwnProvider ==
  [][\A c \in inflight' \ inflight :
       IF c.kind = "load"
       THEN c.to = "proxy" /\ c.key = NoKey
       ELSE c.to \in Providers /\ c.key # NoKey /\ c.key = savedKeys[c.to]]_vars

\* a request to one provider while another provider has a different key
C14_Witness ==
  \E c \in inflight :
    /\ c.to = "anthropic"
    /\ c.key = "k2"
    /\ savedKeys["openai"] = "k1"

\* ----------------------------------------------------------------- C15
\* a generation operation is invoked
GenerationStep == (\E f \in GenOps : Generate(f)) \/ (\E q \in QuestionTexts : AskQuestion(q))

\* C15: a generation operation invoked while no provider is selected shows
\* an error (the missing provider, unless no paper is loaded or the question
\* is empty), starts no request and leaves currentPaper, qaHistory, the
\* cache, the library and the buttons as they were
C15_NoProviderNoCall ==
  [][((activeProvider = "none" \/ KeyOf(activeProvider) = NoKey) /\ GenerationStep) =>
       /\ UNCHANGED <<currentPaper, qaHistory, papers, library, inflight, busy>>
       /\ lastError' \in {"noProvider", "noPaper", "noQuestion"}
       /\ currentPaper # NoPaper => lastError' \in {"noProvider", "noQuestion"}]_vars

\* a paper is loaded, no provider is selected, the operation was refused
C15_Witness ==
  /\ currentPaper # NoPaper
  /\ activeProvider = "none"
  /\ lastError = "noProvider"
  /\ inflight = {}

\* ----------------------------------------------------------------- C17
\* C17: loading a paper from the cache restores every generated field of
\* its cache entry, and the Q&A history, into the application state
C17_CacheRestoresAll ==
  [][\A id \in PaperIds :
       (papers[id].cached /\ HandleLoadCachedPaper(id)) =>
         /\ currentPaper'.gen = papers[id].gen
         /\ qaHistory' = papers[id].qa]_vars

\* ----------------------------------------------------------------- C19
\* C19: Load Paper for an id that has a cache entry issues no network fetch
C19_CachedLoadNoFetch ==
  [][\A id \in PaperIds :
       (papers[id].cached /\ HandleLoadPaper(id)) =>
         ~\E c \in inflight' : c.kind = "load"]_vars

\* ----------------------------------------------------------------- C20
\* C20: when a question fails, qaHistory is afterwards what it was before
\* the question was asked
C20_FailedQuestionOnly ==
  [][\A out \in {"error", "threw"} :
       QuestionDone(out) =>
         \E c \in inflight : c.kind = "question" /\ qaHistory' = c.qa]_vars

\* ----------------------------------------------------------------- C16
\* the step is taken by call j: its transport or its adapter moved
StepOf(j) == streamCalls'[j].pc # streamCalls[j].pc \/ streamCalls'[j].wire # streamCalls[j].wire \/ streamCalls'[j].open # streamCalls[j].open

\* C16: whatever the interleaving of two streaming calls, a callback object
\* only ever receives invocations produced by its own call's transport, and
\* a step of one call changes nothing of the other call
C16_CallsIndependent ==
  /\ [](\A i \in CallIds : \A k \in 1..Len(streamCalls[i].heard) : streamCalls[i].heard[k].from = i)
  /\ [][\A i \in CallIds, j \in CallIds : (i # j /\ StepOf(j)) => streamCalls'[i] = streamCalls[i]]_vars

\* both calls are streaming at once: call 1 has received one token and has
\* bytes still unread while call 2 has already received two
C16_Witness ==
  /\ streamCalls[1].pc = "reading"
  /\ streamCalls[2].pc = "reading"
  /\ Len(streamCalls[1].heard) = 1
  /\ streamCalls[1].heard[1].cb = "token"
  /\ Len(streamCalls[2].heard) = 2
  /\ streamCalls[2].heard[2].cb = "token"
  /\ streamCalls[1].wire # <<>>

\* ----------------------------------------------------------------- C21
\* the buttons the generation operations and askQuestion disable
Buttons == GenOps \cup {"question"}

\* C21: a generation button is disabled only while its LLM call is in
\* flight: once the call has terminated, whatever its outcome, the button
\* is enabled again
C21_ButtonFollowsCall ==
  \A f \in Buttons : f \in busy => \E c \in inflight : c.kind = f

\* ----------------------------------------------------------------- C22
\* the generated fields and the answers of the cache entry of id were all
\* generated from the paper id
OwnContent(id) ==
  /\ \A f \in Fields : papers[id].gen[f] \in {NoContent, id}
  /\ \A k \in 1..Len(papers[id].qa) : papers[id].qa[k].answer \in {"thinking", id}

\* C22: the cache entry stored under a paper's id holds only content
\* generated for that paper
C22_EntryOwnContent == \A id \in PaperIds : papers[id].cached => OwnContent(id)

\* ----------------------------------------------------------------- C23
\* C23: when the result of a summary, concepts or accessible-version
\* request built from one paper arrives while another paper is the current
\* one, the current paper and its cache entry stay as they were
C23_ResultStaysWithPaper ==
  [][\A f \in GenOps, out \in {"complete", "returned"} :
       \A c \in inflight :
         (c.kind = f /\ c.id # currentPaper.id /\ GenerateDone(f, out)) =>
           /\ currentPaper' = currentPaper
           /\ papers'[currentPaper.id] = papers[currentPaper.id]]_vars

\* ----------------------------------------------------------------- C24
\* the last entry of qaHistory is the one askQuestion pushed for the
\* question in flight c: the history is the one c was asked with, plus the
\* entry of c's question
OwnEntry(c) ==
  /\ Len(qaHistory) = Len(c.qa) + 1
  /\ SubSeq(qaHistory, 1, Len(c.qa)) = c.qa
  /\ qaHistory[Len(qaHistory)].question = c.q

\* C24: in streaming mode a token of an answer is only ever written into
\* the Q&A entry of the question that triggered it
C24_TokenToOwnEntry ==
  [][QuestionToken => \A c \in inflight : c.kind = "question" => OwnEntry(c)]_vars

\* ----------------------------------------------------------------- C25
\* onError is never invoked after onComplete
NoErrorAfterComplete ==
  \A i \in 1..Len(log), j \in 1..Len(log) : (i < j /\ log[i].cb = "complete") => log[j].cb # "error"

\* an exception thrown by onToken is reported to onError or rejects the
\* promise of the call
TokenThrowSurfaces ==
  \A i \in 1..Len(log) :
    (log[i].cb = "token" /\ "token" \in throwing) =>
      \/ i < Len(log) /\ log[i + 1].cb = "error"
      \/ i = Len(log) /\ outcome = "threw"

\* C25: an exception thrown by the caller's own callback does not corrupt
\* the protocol: a throwing onComplete is not followed by onError, and a
\* throwing onToken is not silently discarded
C25_CallbackThrowsContained == NoErrorAfterComplete /\ TokenThrowSurfaces

\* ----------------------------------------------------------------- C26
\* C26: getActiveProvider returns a provider only if a non-empty key is
\* saved for it, with the key currently saved for it; called on a record
\* whose provider has no saved key it returns null and removes the record,
\* and it changes nothing otherwise
C26_ActiveProviderHasKey ==
  /\ [](Selected => (savedKeys[activeProvider] \in Keys /\ SelectedKey = savedKeys[activeProvider]))
  /\ [][GetActiveProvider =>
         /\ savedKeys' = savedKeys
         /\ IF activeProvider \in Providers /\ savedKeys[activeProvider] # NoKey
            THEN activeProvider' = activeProvider
            ELSE activeProvider' = "none"]_vars

\* the stored active provider has lost its key while another provider has
\* one: getActiveProvider returns null
C26_Witness ==
  /\ activeProvider = "openai"
  /\ savedKeys["openai"] = NoKey
  /\ savedKeys["cohere"] = "k2"
  /\ ~Selected

\* ----------------------------------------------------------------- C27
\* C27: removeApiKey(p) deletes the key of p and no other; if p was the
\* active provider none is active afterwards, and a provider q other than p
\* that was active with its key stays active
C27_RemoveOnlyOwnKey ==
  [][\A p \in Providers :
       RemoveApiKeyFromUI(p) =>
         /\ savedKeys'[p] = NoKey
         /\ \A q \in Providers \ {p} : savedKeys'[q] = savedKeys[q]
         /\ activeProvider = p => activeProvider' = "none"
         /\ \A q \in Providers \ {p} :
              (activeProvider = q /\ savedKeys[q] # NoKey) => activeProvider' = q]_vars

\* anthropic is active with its key and cohere keeps its own, after the key
\* of openai was removed
C27_Witness ==
  /\ activeProvider = "anthropic"
  /\ savedKeys["anthropic"] = "k1"
  /\ savedKeys["cohere"] = "k2"
  /\ savedKeys["openai"] = NoKey

\* ----------------------------------------------------------------- C28
\* C28: the library holds at most one entry per paper id and its ids are
\* exactly the ids that have a cache entry; clearAllCache leaves no cache
\* entry behind
C28_LibraryAgreesWithCache ==
  /\ [](\A i \in 1..Len(library), j \in 1..Len(library) : library[i] = library[j] => i = j)
  /\ [](\A id \in PaperIds : papers[id].cached <=> id \in LibraryIds(library))
  /\ [][ClearCache => \A id \in PaperIds : ~papers'[id].cached]_vars

\* the current paper A was cached once and is no longer, while B still is:
\* deleteCachedPaper has acted on a library of two
C28_Witness ==
  /\ currentPaper.id = "A"
  /\ ~papers["A"].cached
  /\ library = <<"B">>
  /\ papers["B"].cached

\* ----------------------------------------------------------------- C29
\* C29: deleteCachedPaper(id) removes the cache entry and the library entry
\* of id and leaves the entries of every other paper, the saved keys, the
\* active provider and the streaming preference as they were
C29_DeleteOnlyOwnEntry ==
  [][\A id \in PaperIds :
       DeletePaper(id) =>
         /\ ~papers'[id].cached
         /\ \A o \in PaperIds \ {id} : papers'[o] = papers[o]
         /\ LibraryIds(library') = LibraryIds(library) \ {id}
         /\ Len(library') = Cardinality(LibraryIds(library'))
         /\ UNCHANGED <<savedKeys, activeProvider, streamingEnabled>>]_vars

\* B was the current paper and its entry is gone; A's entry still holds its
\* summary, and the key and the streaming preference are in place
C29_Witness ==
  /\ currentPaper.id = "B"
  /\ ~papers["B"].cached
  /\ library = <<"A">>
  /\ papers["A"].gen["summary"] = "A"
  /\ savedKeys["openai"] = "k1"
  /\ activeProvider = "openai"
  /\ streamingEnabled

\* ----------------------------------------------------------------- C30
\* C30: a load that fails (no valid arXiv id in the input, fetch error or
\* non-OK response) shows its error and leaves the cache, the library,
\* currentPaper and qaHistory as they were
C30_FailedLoadChangesNothing ==
  [][(HandleLoadPaper("") \/ LoadDone(FALSE)) =>
       /\ UNCHANGED <<currentPaper, qaHistory, papers, library>>
       /\ lastError' \in {"invalidId", "loadError"}]_vars

\* a fetch has just failed while a paper with an answered question is loaded
C30_Witness ==
  /\ lastError = "loadError"
  /\ currentPaper.id = "A"
  /\ qaHistory # <<>>
  /\ papers["A"].cached

====
